---- MODULE Spec2Model ----
(***************************************************************************)
(* Model of cllama/__main__.py: the `run` command (artifact resolution,    *)
(* instance matching, security group provisioning) and the pure helper     *)
(* _filter_instance_types.                                                 *)
(*                                                                         *)
(* Text is modelled as a sequence of one-character strings so that         *)
(* str.strip, str.split, str.startswith and string comparison are computed *)
(* the way Python computes them.                                           *)
(***************************************************************************)
EXTENDS Integers, Sequences, FiniteSets, TLC

(***************************************************************************)
(* Bounds of the model.                                                    *)
(***************************************************************************)
\* number of sequential invocations of `run`
MaxRuns == 2
\* number of descriptors in a catalog handed to _filter_instance_types
MaxCatalog == 2
\* number of path segments of a repository URL handed to _resolve_git_package
MaxSegments == 2

(***************************************************************************)
(* Text helpers.                                                           *)
(***************************************************************************)
None == "None"
\* None in a local that otherwise holds a text
NoneText == <<>>

\* str + str
Cat(s, t) == s \o t

\* str.startswith(prefix)
StartsWith(s, p) ==
    /\ Len(s) >= Len(p)
    /\ SubSeq(s, 1, Len(p)) = p

\* characters of a text, as a set (the argument of str.strip is a set of characters)
CharsOf(s) == {s[i] : i \in 1..Len(s)}

RECURSIVE LStrip(_, _)
LStrip(s, chars) ==
    IF s # <<>> /\ Head(s) \in chars THEN LStrip(Tail(s), chars) ELSE s

RECURSIVE RStrip(_, _)
RStrip(s, chars) ==
    IF s # <<>> /\ s[Len(s)] \in chars THEN RStrip(SubSeq(s, 1, Len(s) - 1), chars) ELSE s

\* str.strip(chars): removes every leading and trailing character that is in chars
Strip(s, chars) == RStrip(LStrip(s, chars), chars)

Whitespace == {" ", "\n", "\t", "\r"}

RECURSIVE SplitFrom(_, _, _)
SplitFrom(s, sep, cur) ==
    IF s = <<>> THEN <<cur>>
    ELSE IF Head(s) = sep THEN <<cur>> \o SplitFrom(Tail(s), sep, <<>>)
    ELSE SplitFrom(Tail(s), sep, Append(cur, Head(s)))

\* str.split(sep) for a one-character separator
Split(s, sep) == SplitFrom(s, sep, <<>>)


\* code-point order of the characters that occur in instance type names
CharOrder == <<"-", ".", "0", "1", "2", "3", "4", "5", "6", "7", "8", "9",
               "a", "b", "c", "d", "e", "f", "g", "h", "i", "j", "k", "l", "m",
               "n", "o", "p", "q", "r", "s", "t", "u", "v", "w", "x", "y", "z">>

Ord(c) == CHOOSE i \in 1..Len(CharOrder) : CharOrder[i] = c

\* Python's str < str
RECURSIVE StrLess(_, _)
StrLess(a, b) ==
    IF b = <<>> THEN FALSE
    ELSE IF a = <<>> THEN TRUE
    ELSE IF Head(a) = Head(b) THEN StrLess(Tail(a), Tail(b))
    ELSE Ord(Head(a)) < Ord(Head(b))

(***************************************************************************)
(* Instance matcher: _filter_instance_types.                               *)
(* A descriptor is [InstanceType, DefaultVCpus, SizeInMiB, HasGpuInfo,     *)
(* Gpus], Gpus a sequence of [Count, SizeInMiB, Name].  An absent optional *)
(* number is NoneNum, an absent optional text is None.                     *)
(***************************************************************************)
NoneNum == -1

\* cllama.spec.GPU_MEMORY: GPU family -> memory in GiB
GPU_MEMORY == [t \in {"T4", "A10G"} |-> IF t = "T4" THEN 16 ELSE 24]

Gpu(count, mib, name) == [Count |-> count, SizeInMiB |-> mib, Name |-> name]

Descriptor(type, vcpus, mib, gpus) ==
    [InstanceType |-> type, DefaultVCpus |-> vcpus, SizeInMiB |-> mib,
     HasGpuInfo |-> gpus # <<>>, Gpus |-> gpus]

\* spec.get("GpuInfo", {}).get("Gpus", [])
GpusOf(spec) == IF spec.HasGpuInfo THEN spec.Gpus ELSE <<>>

\* _check_instance with a floor division: it_gpu_mem = SizeInMiB // 1024
CheckInstanceFloorDiv(spec, gpu_count, gpu_memory, level) ==
    IF gpu_count = 0 \/ gpu_count = NoneNum
    THEN IF spec.HasGpuInfo THEN "no" ELSE "yes"
    ELSE IF Len(GpusOf(spec)) = 0 THEN "no"
    ELSE LET it_gpu == GpusOf(spec)[1]
             it_gpu_mem == it_gpu.SizeInMiB \div 1024
         IN  IF it_gpu.Count = gpu_count /\ it_gpu_mem = gpu_memory THEN "yes"
             ELSE IF it_gpu.Count >= gpu_count /\ it_gpu_mem >= gpu_memory
                  THEN IF level = "match" THEN "no"
                       ELSE IF level = "usable" THEN "yes"
                       ELSE "assert"
             ELSE "no"

\* _check_instance without the exclusion of GPU types for a CPU-only requirement
CheckInstanceKeepsGpuTypes(spec, gpu_count, gpu_memory, level) ==
    IF gpu_count = 0 \/ gpu_count = NoneNum
    THEN "yes"
    ELSE IF Len(GpusOf(spec)) = 0 THEN "no"
    ELSE LET it_gpu == GpusOf(spec)[1]
         IN  IF it_gpu.Count = gpu_count /\ it_gpu.SizeInMiB = gpu_memory * 1024 THEN "yes"
             ELSE IF it_gpu.Count >= gpu_count /\ it_gpu.SizeInMiB >= gpu_memory * 1024
                  THEN IF level = "match" THEN "no"
                       ELSE IF level = "usable" THEN "yes"
                       ELSE "assert"
             ELSE "no"

\* _check_instance: "yes" / "no" for True / False, "assert" for the failed
\* assertion on an unknown level.  it_gpu_mem = SizeInMiB / 1024 is a true
\* division, so the comparisons with gpu_memory are made on SizeInMiB and
\* gpu_memory * 1024
_check_instance(spec, gpu_count, gpu_memory, level) ==
    IF gpu_count = 0 \/ gpu_count = NoneNum
    THEN IF spec.HasGpuInfo THEN "no" ELSE "yes"
    ELSE IF Len(GpusOf(spec)) = 0 THEN "no"
    ELSE LET it_gpu == GpusOf(spec)[1]
         IN  IF it_gpu.Count = gpu_count /\ it_gpu.SizeInMiB = gpu_memory * 1024 THEN "yes"
             ELSE IF it_gpu.Count >= gpu_count /\ it_gpu.SizeInMiB >= gpu_memory * 1024
                  THEN IF level = "match" THEN "no"
                       ELSE IF level = "usable" THEN "yes"
                       ELSE "assert"
             ELSE "no"

\* _sort_key: (family, count of the first GPU or 0, vcpus, memory)
_sort_key(spec) ==
    <<Split(spec.InstanceType, ".")[1],
      IF spec.HasGpuInfo THEN spec.Gpus[1].Count ELSE 0,
      spec.DefaultVCpus,
      spec.SizeInMiB>>

\* Python's tuple < tuple on sort keys
KeyLess(k1, k2) ==
    \/ StrLess(k1[1], k2[1])
    \/ /\ k1[1] = k2[1]
       /\ \/ k1[2] < k2[2]
          \/ /\ k1[2] = k2[2]
             /\ \/ k1[3] < k2[3]
                \/ k1[3] = k2[3] /\ k1[4] < k2[4]

\* insertion that keeps x behind every element whose key is not greater
RECURSIVE InsertSorted(_, _)
InsertSorted(x, s) ==
    IF s = <<>> THEN <<x>>
    ELSE IF KeyLess(_sort_key(x), _sort_key(Head(s))) THEN <<x>> \o s
    ELSE <<Head(s)>> \o InsertSorted(x, Tail(s))

\* sorted(iterable, key=_sort_key): a stable sort
RECURSIVE Sorted(_)
Sorted(s) ==
    IF s = <<>> THEN <<>>
    ELSE InsertSorted(s[Len(s)], Sorted(SubSeq(s, 1, Len(s) - 1)))

\* filter(_check_instance, instance_types)
RECURSIVE FilterSeq(_, _, _, _)
FilterSeq(s, gpu_count, gpu_memory, level) ==
    IF s = <<>> THEN <<>>
    ELSE IF _check_instance(Head(s), gpu_count, gpu_memory, level) = "yes"
         THEN <<Head(s)>> \o FilterSeq(Tail(s), gpu_count, gpu_memory, level)
         ELSE FilterSeq(Tail(s), gpu_count, gpu_memory, level)

\* _filter_instance_types: [err, its]; err is "none" when a list is returned
_filter_instance_types(instance_types, gpu_count, gpu_memory, gpu_type, level) ==
    IF gpu_memory = NoneNum /\ gpu_type = None
    THEN [err |-> "ValueError: Either gpu_memory or gpu_type must be provided", its |-> <<>>]
    ELSE IF gpu_memory = NoneNum /\ gpu_type \notin DOMAIN GPU_MEMORY
    THEN [err |-> "KeyError", its |-> <<>>]
    ELSE LET mem == IF gpu_memory = NoneNum THEN GPU_MEMORY[gpu_type] ELSE gpu_memory
         IN  IF \E i \in 1..Len(instance_types) :
                    _check_instance(instance_types[i], gpu_count, mem, level) = "assert"
             THEN [err |-> "AssertionError", its |-> <<>>]
             ELSE [err |-> "none", its |-> Sorted(FilterSeq(instance_types, gpu_count, mem, level))]

(***************************************************************************)
(* Data of the `run` command.                                              *)
(***************************************************************************)
T_llama2 == <<"l", "l", "a", "m", "a", "2">>
T_latest == <<"l", "a", "t", "e", "s", "t">>
T_7b == <<"7", "b">>
T_7b_chat == <<"7", "b", "-", "c", "h", "a", "t">>
T_7b_chat_fp16 == <<"7", "b", "-", "c", "h", "a", "t", "-", "f", "p", "1", "6">>
T_m2 == <<"m", "2">>
T_v2 == <<"v", "2">>
T_gpt2 == <<"g", "p", "t", "2">>
T_tag_prefix == <<"_", "_", "t", "a", "g", "_", "_", ":">>

\* MODEL_INFOS["llama2"]: the tags in insertion order (all name the same package)
MODEL_INFOS == <<T_7b, T_7b_chat, T_7b_chat_fp16>>

\* the --tag values given on the command line
TagArgs == {T_latest, T_7b, T_7b_chat}

\* f"{name}:{version}"
TagOf(name, version) == Cat(name, Cat(<<":">>, version))

\* identities (name, version) the build tool may print
BuildIdentities == {<<T_m2, T_v2>>, <<T_llama2, T_7b_chat>>, <<T_gpt2, T_v2>>}

\* the line `bentoml build --output tag` prints for an identity
BuildOutput(id, prefixed) ==
    Cat(IF prefixed THEN T_tag_prefix ELSE <<>>, Cat(TagOf(id[1], id[2]), <<"\n">>))

\* _build_bento, after the subprocess returned build_result: the list tag.split(":")
_build_bento(build_result) ==
    LET tag == Strip(build_result, Whitespace)
        tag2 == IF StartsWith(tag, T_tag_prefix) THEN Strip(tag, CharsOf(T_tag_prefix)) ELSE tag
    IN  Split(tag2, ":")

(***************************************************************************)
(* Reference resolver: REG_GITPACKAGE and _resolve_git_package.            *)
(***************************************************************************)
T_git_plus == <<"g", "i", "t", "+">>
T_subdirectory_marker == <<"#", "s", "u", "b", "d", "i", "r", "e", "c", "t", "o", "r", "y", "=">>

\* the least element of a non-empty set of integers
Min(S) == CHOOSE x \in S : \A y \in S : x <= y

\* `.` of the pattern matches every character but the newline
NoNewline(s) == \A i \in 1..Len(s) : s[i] # "\n"

\* the text up to the first newline (the greedy `.+` at the end of the pattern)
UpToNewline(s) ==
    IF NoNewline(s) THEN s
    ELSE SubSeq(s, 1, Min({i \in 1..Len(s) : s[i] = "\n"}) - 1)

\* positions of "#subdirectory=" that close a non-empty branch opened by the
\* "@" at position a and are followed by at least one character
MarkerPositions(p, a) ==
    {h \in (a + 2)..(Len(p) - Len(T_subdirectory_marker)) :
        /\ SubSeq(p, h, h + Len(T_subdirectory_marker) - 1) = T_subdirectory_marker
        /\ NoNewline(SubSeq(p, a + 1, h - 1))
        /\ p[h + Len(T_subdirectory_marker)] # "\n"}

\* positions of an "@" that closes a non-empty repo and lets the rest match
AtPositions(p) ==
    {a \in (Len(T_git_plus) + 2)..Len(p) :
        /\ p[a] = "@"
        /\ NoNewline(SubSeq(p, Len(T_git_plus) + 1, a - 1))
        /\ MarkerPositions(p, a) # {}}

\* REG_GITPACKAGE.match(package) with the lazy groups repo and branch:
\* [matched, repo, branch, subdirectory]
REG_GITPACKAGE(p) ==
    IF StartsWith(p, T_git_plus) /\ AtPositions(p) # {}
    THEN LET a == Min(AtPositions(p))
             h == Min(MarkerPositions(p, a))
         IN  [matched |-> TRUE,
              repo |-> SubSeq(p, Len(T_git_plus) + 1, a - 1),
              branch |-> SubSeq(p, a + 1, h - 1),
              subdirectory |-> UpToNewline(SubSeq(p, h + Len(T_subdirectory_marker), Len(p)))]
    ELSE [matched |-> FALSE, repo |-> <<>>, branch |-> <<>>, subdirectory |-> <<>>]

\* the position of the first character of s, from position from on, that is in chars; Len(s) + 1 if none
FirstOf(s, chars, from) ==
    Min({i \in from..Len(s) : s[i] \in chars} \cup {Len(s) + 1})

\* characters of a URL scheme
SchemeChars == CharsOf(CharOrder) \cup {"+"}

\* urllib.parse.urlparse(url), the fields netloc and path
urlparse(url) ==
    LET c == FirstOf(url, {":"}, 1)
        has_scheme == /\ 1 < c /\ c <= Len(url)
                      /\ \A i \in 1..(c - 1) : url[i] \in SchemeChars
        rest == IF has_scheme THEN SubSeq(url, c + 1, Len(url)) ELSE url
        has_netloc == StartsWith(rest, <<"/", "/">>)
        n == FirstOf(rest, {"/", "?", "#"}, 3)
        after == IF has_netloc THEN SubSeq(rest, n, Len(rest)) ELSE rest
    IN  [netloc |-> IF has_netloc THEN SubSeq(rest, 3, n - 1) ELSE <<>>,
         path |-> SubSeq(after, 1, FirstOf(after, {"?", "#"}, 1) - 1)]

\* the result of a failed parse
InvalidPackage ==
    [err |-> "ValueError: Invalid git package", repo |-> <<>>, branch |-> <<>>,
     subdirectory |-> <<>>, path_parts |-> <<>>]

\* _resolve_git_package with a default branch for a reference without "@"
ResolveWithDefaultBranch(package) ==
    LET match == REG_GITPACKAGE(package)
        parsed == urlparse(match.repo)
    IN  IF ~match.matched
        THEN [err |-> "none", repo |-> package, branch |-> <<"m", "a", "i", "n">>,
              subdirectory |-> <<".">>, path_parts |-> <<package>>]
        ELSE [err |-> "none", repo |-> match.repo, branch |-> match.branch,
              subdirectory |-> match.subdirectory,
              path_parts |-> <<parsed.netloc>> \o Split(parsed.path, "/")]

\* _resolve_git_package: err is "none" when the four components are returned
_resolve_git_package(package) ==
    LET match == REG_GITPACKAGE(package)
        parsed == urlparse(match.repo)
    IN  IF ~match.matched THEN InvalidPackage
        ELSE [err |-> "none", repo |-> match.repo, branch |-> match.branch,
              subdirectory |-> match.subdirectory,
              path_parts |-> <<parsed.netloc>> \o Split(parsed.path, "/")]

\* pathlib's joinpath(*path_parts) below REPO_DIR: empty and "." parts vanish
JoinPath(path_parts) == SelectSeq(path_parts, LAMBDA part : part # <<>> /\ part # <<".">>)

\* MODEL_INFOS["llama2"][tag]: the package of every tag
PACKAGE_llama2 ==
    <<"g", "i", "t", "+", "h", "t", "t", "p", "s", ":", "/", "/", "g", "i", "t", "h", "u", "b", ".", "c", "o", "m", "/", "b", "o", "j", "i", "a", "n", "g", "/", "b", "e", "n", "t", "o", "v", "l", "l", "m",
       "@", "m", "a", "i", "n",
       "#", "s", "u", "b", "d", "i", "r", "e", "c", "t", "o", "r", "y", "=", "l", "l", "a", "m", "a", "2", "-", "7", "b", "-", "c", "h", "a", "t">>

\* the repository and branch a source directory was cloned from
Source(repo_url, branch_name) == <<repo_url, branch_name>>
NoSource == Source(<<>>, <<>>)

\* the directory below REPO_DIR that a repository URL is stored in
StoragePath(repo_url) ==
    JoinPath(<<urlparse(repo_url).netloc>> \o Split(urlparse(repo_url).path, "/"))

T_main == <<"m", "a", "i", "n">>
T_dev == <<"d", "e", "v">>
T_repo_llama2 == <<"h", "t", "t", "p", "s", ":", "/", "/", "g", "i", "t", "h", "u", "b", ".", "c", "o", "m", "/", "b", "o", "j", "i", "a", "n", "g", "/", "b", "e", "n", "t", "o", "v", "l", "l", "m">>
T_repo_llama2_http == <<"h", "t", "t", "p", ":", "/", "/", "g", "i", "t", "h", "u", "b", ".", "c", "o", "m", "/", "b", "o", "j", "i", "a", "n", "g", "/", "b", "e", "n", "t", "o", "v", "l", "l", "m">>
T_repo_other == <<"h", "t", "t", "p", "s", ":", "/", "/", "g", "i", "t", "h", "u", "b", ".", "c", "o", "m", "/", "b", "o", "j", "i", "a", "n", "g", "/", "o", "t", "h", "e", "r">>

\* what the source directory of the package may hold when the first
\* invocation starts: a clone made earlier of a repository and branch that
\* are stored in the same directory
DirSources ==
    {src \in {Source(T_repo_llama2, T_main), Source(T_repo_llama2, T_dev),
              Source(T_repo_llama2_http, T_main), Source(T_repo_other, T_main)} :
        StoragePath(src[1]) = StoragePath(T_repo_llama2)}

\* bento_info["services"][i]: has_config / has_resources tell whether the keys
\* "config" and "resources" are present, has_gpu whether "gpu" is in resources
Service(has_config, has_resources, has_gpu, gpu, gpu_type, gpu_memory) ==
    [has_config |-> has_config, has_resources |-> has_resources, has_gpu |-> has_gpu,
     gpu |-> gpu, gpu_type |-> gpu_type, gpu_memory |-> gpu_memory]

GpuService(gpu, gpu_type, gpu_memory) == Service(TRUE, TRUE, TRUE, gpu, gpu_type, gpu_memory)

NoInfo == [services |-> <<>>, loaded |-> FALSE]

\* documents `bentoml get` may return
BentoInfos ==
    {[services |-> s, loaded |-> TRUE] : s \in
       { <<GpuService(1, None, 16)>>,
         <<GpuService(1, "T4", NoneNum)>>,
         <<GpuService(1, None, NoneNum)>>,
         <<GpuService(1, None, 80)>>,
         <<GpuService(0, None, NoneNum)>>,
         <<GpuService(0, None, 16)>>,
         <<Service(TRUE, TRUE, FALSE, NoneNum, None, NoneNum)>>,
         <<Service(FALSE, FALSE, FALSE, NoneNum, None, NoneNum)>>,
         <<Service(TRUE, FALSE, FALSE, NoneNum, None, NoneNum)>>,
         <<GpuService(1, None, 16), GpuService(1, None, 16)>> }}

\* instance type descriptors of the cloud catalog
IT_g4dn_xlarge ==
    Descriptor(<<"g", "4", "d", "n", ".", "x", "l", "a", "r", "g", "e">>, 4, 16384,
               <<Gpu(1, 16384, "T4")>>)
IT_g5_xlarge ==
    Descriptor(<<"g", "5", ".", "x", "l", "a", "r", "g", "e">>, 4, 16384,
               <<Gpu(1, 24576, "A10G")>>)
IT_g6_xlarge ==
    Descriptor(<<"g", "6", ".", "x", "l", "a", "r", "g", "e">>, 4, 16384,
               <<Gpu(1, 22888, "L4")>>)
IT_g5g_16xlarge ==
    Descriptor(<<"g", "5", "g", ".", "1", "6", "x", "l", "a", "r", "g", "e">>, 64, 131072,
               <<Gpu(2, 16384, "T4g")>>)
IT_g5g_metal ==
    Descriptor(<<"g", "5", "g", ".", "m", "e", "t", "a", "l">>, 64, 131072,
               <<Gpu(2, 16384, "T4g")>>)
IT_m5_large ==
    Descriptor(<<"m", "5", ".", "l", "a", "r", "g", "e">>, 2, 8192, <<>>)

\* answers of `aws ec2 describe-instance-types` used by run
Catalogs ==
    { <<IT_g4dn_xlarge, IT_m5_large>>,
      <<IT_g5g_metal, IT_g4dn_xlarge>>,
      <<IT_g5_xlarge>> }

\* the ingress ports authorized on a new security group, in call order
IngressPorts == <<80, 443, 22>>

\* one external command (or prompt) of the invocation, and whether it succeeded
Call(cmd, arg, ok) == [cmd |-> cmd, arg |-> arg, ok |-> ok]

VARIABLES
    \* persistent: the directory REPO_DIR/<path_parts> ("absent", "partial", "clone")
    repo_dir,
    \* persistent: the repository and branch the content of that directory was cloned from
    dir_source,
    \* persistent: the account's security groups named cllama-http-default; the
    \* group id is the index, the value the set of authorized ports
    groups,
    \* number of invocations of run so far
    nruns,
    \* position in run
    pc,
    \* run's locals
    package, repo, branch, subdirectory, path_parts,
    tag, force_rebuild, bento, bento_info, available_it_infos, supported_its, it,
    security_group_id, init_script_file,
    \* security_group_id inside _ensure_aws_security_group
    ensure_group_id,
    \* the identity and form of the line printed by the build step
    built,
    \* the external commands executed by this invocation, in order
    calls,
    \* the exception that left run ("none" while running or after a return)
    err,
    \* the id returned by the latest completed _ensure_aws_security_group (0: it raised, or none yet)
    last_sg,
    \* last_sg as it was when the current _ensure_aws_security_group started
    prev_sg,
    \* a call of _filter_instance_types: arguments, result, and the result for the
    \* catalog in its first order
    f_args, f_result, f_first,
    \* the components of the reference that is handed to the resolver
    reference

package_vars == <<package, repo, branch, subdirectory, path_parts>>
run_locals == <<package_vars, tag, force_rebuild, bento, bento_info, available_it_infos, supported_its, it,
                security_group_id, init_script_file, ensure_group_id, built>>
matcher_vars == <<f_args, f_result, f_first>>
vars == <<repo_dir, dir_source, groups, nruns, pc, run_locals, calls, err, last_sg, prev_sg,
          matcher_vars, reference>>

NoResult == [err |-> "not called", its |-> <<>>]
NoArgs == [instance_types |-> <<>>, gpu_count |-> 0, gpu_memory |-> NoneNum,
           gpu_type |-> None, level |-> "match"]
NoBuilt == [id |-> <<<<>>, <<>>>>, prefixed |-> FALSE]

NoReference == [form |-> "none", scheme |-> <<>>, host |-> <<>>, segments |-> <<>>,
                branch |-> <<>>, subdirectory |-> <<>>]

RunInit ==
    /\ \/ repo_dir = "absent" /\ dir_source = NoSource
       \/ repo_dir \in {"partial", "clone"} /\ dir_source \in DirSources
    /\ package = <<>>
    /\ repo = <<>>
    /\ branch = <<>>
    /\ subdirectory = <<>>
    /\ path_parts = <<>>
    /\ groups = <<>>
    /\ nruns = 0
    /\ pc = "idle"
    /\ tag = <<>>
    /\ force_rebuild = FALSE
    /\ bento = <<>>
    /\ bento_info = NoInfo
    /\ available_it_infos = <<>>
    /\ supported_its = <<>>
    /\ it = NoneText
    /\ security_group_id = 0
    /\ ensure_group_id = 0
    /\ init_script_file = FALSE
    /\ built = NoBuilt
    /\ calls = <<>>
    /\ err = "none"
    /\ last_sg = 0
    /\ prev_sg = 0

MatcherIdle ==
    /\ f_args = NoArgs
    /\ f_result = NoResult
    /\ f_first = NoResult

Init == RunInit /\ MatcherIdle /\ reference = NoReference

\* an exception leaves run
Raise(e) ==
    /\ pc' = "raised"
    /\ err' = e

(***************************************************************************)
(* run: artifact resolution (lines 274-300).                               *)
(***************************************************************************)
\* lines 274-279: run is entered, the tag is resolved, and the package pkg
\* read from MODEL_INFOS is parsed; a package that does not parse raises
Enter(t, f, pkg) ==
    /\ pc \in {"idle", "raised", "returned"}
    /\ nruns < MaxRuns
    /\ nruns' = nruns + 1
    /\ tag' = IF t = T_latest THEN MODEL_INFOS[1] ELSE t
    /\ package' = pkg
    /\ \E r \in {_resolve_git_package(pkg)} :
           /\ repo' = r.repo
           /\ branch' = r.branch
           /\ subdirectory' = r.subdirectory
           /\ path_parts' = r.path_parts
           /\ err' = r.err
           /\ pc' = IF r.err = "none" THEN "get_bento_info" ELSE "raised"
    /\ force_rebuild' = f
    /\ bento' = <<>>
    /\ bento_info' = NoInfo
    /\ available_it_infos' = <<>>
    /\ supported_its' = <<>>
    /\ it' = NoneText
    /\ security_group_id' = 0
    /\ ensure_group_id' = 0
    /\ init_script_file' = FALSE
    /\ built' = NoBuilt
    /\ calls' = <<>>
    /\ UNCHANGED <<repo_dir, dir_source, groups, last_sg, prev_sg, matcher_vars, reference>>

\* run <model> --tag t [--force-rebuild]
StartRun(t, f) == Enter(t, f, PACKAGE_llama2)

\* GetBentoInfo with the force-rebuild flag honoured even when the artifact is found
GetBentoInfoRebuildsOnHit ==
    /\ pc = "get_bento_info"
    /\ \/ \E info \in BentoInfos :
            /\ calls' = Append(calls, Call("bentoml get", TagOf(T_llama2, tag), TRUE))
            /\ bento_info' = info
            /\ pc' = IF force_rebuild THEN "rmtree" ELSE "check_services"
       \/ /\ calls' = Append(calls, Call("bentoml get", TagOf(T_llama2, tag), FALSE))
          /\ pc' = IF force_rebuild THEN "rmtree" ELSE "exists"
          /\ UNCHANGED bento_info
    /\ UNCHANGED <<repo_dir, dir_source, groups, nruns, package_vars, tag, force_rebuild, bento, available_it_infos,
                   supported_its, it, security_group_id, ensure_group_id, init_script_file,
                   built, err, last_sg, prev_sg, matcher_vars, reference>>

\* line 281: bento_info = _get_bento_info(f"{model}:{tag}")
GetBentoInfo ==
    /\ pc = "get_bento_info"
    /\ \/ \E info \in BentoInfos :
            /\ calls' = Append(calls, Call("bentoml get", TagOf(T_llama2, tag), TRUE))
            /\ bento_info' = info
            /\ pc' = "check_services"
       \/ /\ calls' = Append(calls, Call("bentoml get", TagOf(T_llama2, tag), FALSE))
          /\ pc' = IF force_rebuild THEN "rmtree" ELSE "exists"
          /\ UNCHANGED bento_info
    /\ UNCHANGED <<repo_dir, dir_source, groups, nruns, package_vars, tag, force_rebuild, bento, available_it_infos,
                   supported_its, it, security_group_id, ensure_group_id, init_script_file,
                   built, err, last_sg, prev_sg, matcher_vars, reference>>

\* a force rebuild that goes to the existence check without deleting anything
ForceRmtreeSkipped ==
    /\ pc = "rmtree"
    /\ pc' = "exists"
    /\ UNCHANGED <<repo_dir, dir_source, groups, nruns, run_locals, calls, err, last_sg, prev_sg,
                   matcher_vars, reference>>

\* lines 285-286: shutil.rmtree(repo_dir, ignore_errors=True); a failed
\* deletion leaves the directory as it was or partly deleted
ForceRmtree ==
    /\ pc = "rmtree"
    /\ repo_dir' \in IF repo_dir = "absent" THEN {"absent"} ELSE {"absent", "partial", repo_dir}
    /\ dir_source' = IF repo_dir' = "absent" THEN NoSource ELSE dir_source
    /\ calls' = Append(calls, Call("rmtree", <<>>, repo_dir' = "absent"))
    /\ pc' = "exists"
    /\ UNCHANGED <<groups, nruns, run_locals, err, last_sg, prev_sg, matcher_vars, reference>>

\* line 288: repo_dir exists, the clone is skipped
SkipClone ==
    /\ pc = "exists"
    /\ repo_dir # "absent"
    /\ pc' = "build"
    /\ UNCHANGED <<repo_dir, dir_source, groups, nruns, run_locals, calls, err, last_sg, prev_sg, matcher_vars, reference>>

\* a failed clone that is cleaned up and followed by the build
CloneFailedGoesOn ==
    /\ \E left \in {"absent", "partial"} :
          repo_dir' \in IF left = "absent" THEN {"absent"} ELSE {"absent", "partial"}
    /\ dir_source' = IF repo_dir' = "absent" THEN NoSource ELSE Source(repo, branch)
    /\ calls' = calls \o <<Call("git clone", <<>>, FALSE),
                            Call("rmtree", <<>>, repo_dir' = "absent")>>
    /\ pc' = "build"
    /\ UNCHANGED err

\* lines 294-296: git clone failed leaving nothing or a partial directory;
\* rmtree(ignore_errors=True) removes it or fails silently; the error is re-raised
CloneFailed ==
    /\ \E left \in {"absent", "partial"} :
          repo_dir' \in IF left = "absent" THEN {"absent"} ELSE {"absent", "partial"}
    /\ dir_source' = IF repo_dir' = "absent" THEN NoSource ELSE Source(repo, branch)
    /\ calls' = calls \o <<Call("git clone", <<>>, FALSE),
                            Call("rmtree", <<>>, repo_dir' = "absent")>>
    /\ Raise("CalledProcessError: git clone")

\* lines 288-296: repo_dir does not exist: mkdir of the parent, then git clone
Clone ==
    /\ pc = "exists"
    /\ repo_dir = "absent"
    /\ \/ /\ Raise("OSError: mkdir")
          /\ UNCHANGED <<repo_dir, dir_source, calls>>
       \/ /\ calls' = Append(calls, Call("git clone", <<>>, TRUE))
          /\ repo_dir' = "clone"
          /\ dir_source' = Source(repo, branch)
          /\ pc' = "build"
          /\ UNCHANGED err
       \/ CloneFailed
    /\ UNCHANGED <<groups, nruns, run_locals, last_sg, prev_sg, matcher_vars, reference>>

\* lines 298-299: bento, tag = _build_bento(bento_project_dir, model, tag)
Build ==
    /\ pc = "build"
    /\ \/ /\ calls' = Append(calls, Call("bentoml build", tag, FALSE))
          /\ Raise("CalledProcessError: bentoml build")
          /\ UNCHANGED <<bento, tag, built>>
       \/ \E id \in BuildIdentities, prefixed \in BOOLEAN :
            LET parts == _build_bento(BuildOutput(id, prefixed))
            IN  /\ calls' = Append(calls, Call("bentoml build", tag, TRUE))
                /\ built' = [id |-> id, prefixed |-> prefixed]
                /\ IF Len(parts) = 2
                   THEN /\ bento' = parts[1]
                        /\ tag' = parts[2]
                        /\ pc' = "get_built_info"
                        /\ UNCHANGED err
                   ELSE /\ Raise("ValueError: unpack")
                        /\ UNCHANGED <<bento, tag>>
    /\ UNCHANGED <<repo_dir, dir_source, groups, nruns, package_vars, force_rebuild, bento_info, available_it_infos,
                   supported_its, it, security_group_id, ensure_group_id, init_script_file,
                   last_sg, prev_sg, matcher_vars, reference>>

\* line 300: bento_info = _get_bento_info(f"{bento}:{tag}")
GetBuiltBentoInfo ==
    /\ pc = "get_built_info"
    /\ \/ \E info \in BentoInfos :
            /\ calls' = Append(calls, Call("bentoml get", TagOf(bento, tag), TRUE))
            /\ bento_info' = info
            /\ pc' = "check_services"
            /\ UNCHANGED err
       \/ /\ calls' = Append(calls, Call("bentoml get", TagOf(bento, tag), FALSE))
          /\ Raise("CalledProcessError: bentoml get")
          /\ UNCHANGED bento_info
    /\ UNCHANGED <<repo_dir, dir_source, groups, nruns, package_vars, tag, force_rebuild, bento, available_it_infos,
                   supported_its, it, security_group_id, ensure_group_id, init_script_file,
                   built, last_sg, prev_sg, matcher_vars, reference>>

(***************************************************************************)
(* run: instance selection (lines 302-344).                                *)
(***************************************************************************)
\* a check of the services that takes the first of several
CheckServicesTakesFirst ==
    /\ pc = "check_services"
    /\ IF Len(bento_info.services) = 0
       THEN Raise("ValueError: Only support one service currently")
       ELSE pc' = "select_provider" /\ UNCHANGED err
    /\ UNCHANGED <<repo_dir, dir_source, groups, nruns, run_locals, calls, last_sg, prev_sg, matcher_vars, reference>>

\* lines 302-303: exactly one service is supported
CheckServices ==
    /\ pc = "check_services"
    /\ IF Len(bento_info.services) # 1
       THEN Raise("ValueError: Only support one service currently")
       ELSE pc' = "select_provider" /\ UNCHANGED err
    /\ UNCHANGED <<repo_dir, dir_source, groups, nruns, run_locals, calls, last_sg, prev_sg, matcher_vars, reference>>

\* the answers of the provider prompt; None is a cancelled prompt
ProviderChoices == {"aws", "gcp(not supported)", "azure(not supported))", None}

\* lines 305-310: the operator selects a cloud provider; only "aws" goes on
SelectProvider ==
    /\ pc = "select_provider"
    /\ \E cloud_provider \in ProviderChoices :
          /\ calls' = Append(calls, Call("select", <<"provider">>, cloud_provider # None))
          /\ pc' = IF cloud_provider = "aws" THEN "describe_instance_types" ELSE "returned"
    /\ UNCHANGED <<repo_dir, dir_source, groups, nruns, run_locals, err, last_sg, prev_sg, matcher_vars, reference>>

\* lines 311-319: aws ec2 describe-instance-types
DescribeInstanceTypes ==
    /\ pc = "describe_instance_types"
    /\ \/ \E c \in Catalogs :
            /\ calls' = Append(calls, Call("aws ec2 describe-instance-types", <<>>, TRUE))
            /\ available_it_infos' = c
            /\ pc' = "match"
            /\ UNCHANGED err
       \/ /\ calls' = Append(calls, Call("aws ec2 describe-instance-types", <<>>, FALSE))
          /\ Raise("CalledProcessError: describe-instance-types")
          /\ UNCHANGED available_it_infos
    /\ UNCHANGED <<repo_dir, dir_source, groups, nruns, package_vars, tag, force_rebuild, bento, bento_info,
                   supported_its, it, security_group_id, ensure_group_id, init_script_file,
                   built, last_sg, prev_sg, matcher_vars, reference>>

\* lines 322-334 and 375-376: the requirement is read from the service and
\* the catalog is filtered at the default level "match"
MatchInstances ==
    /\ pc = "match"
    /\ LET service == bento_info.services[1]
       IN  IF ~service.has_config \/ ~service.has_resources
           THEN Raise("ValueError: Service config is missing") /\ UNCHANGED supported_its
           ELSE IF service.has_gpu
           THEN LET r == _filter_instance_types(available_it_infos, service.gpu,
                                                service.gpu_memory, service.gpu_type, "match")
                IN  IF r.err # "none"
                    THEN Raise(r.err) /\ UNCHANGED supported_its
                    ELSE /\ supported_its' = r.its
                         /\ pc' = "select_instance"
                         /\ UNCHANGED err
           ELSE Raise("ValueError: GPU is required for now") /\ UNCHANGED supported_its
    /\ UNCHANGED <<repo_dir, dir_source, groups, nruns, package_vars, tag, force_rebuild, bento, bento_info,
                   available_it_infos, it, security_group_id, ensure_group_id,
                   init_script_file, built, calls, last_sg, prev_sg, matcher_vars, reference>>

\* _get_it_card reads spec['GpuInfo']['Gpus'][0]: it raises KeyError without GpuInfo
CardFails(spec) == ~spec.HasGpuInfo

\* lines 335-344: the choices are built with _get_it_card and the operator
\* selects an instance type; None is a cancelled prompt.  questionary.select
\* refuses an empty list of choices with a ValueError.
SelectInstance ==
    /\ pc = "select_instance"
    /\ IF \E i \in 1..Len(supported_its) : CardFails(supported_its[i])
       THEN Raise("KeyError: GpuInfo") /\ UNCHANGED <<it, calls, prev_sg>>
       ELSE IF supported_its = <<>>
       THEN Raise("ValueError: A list of choices needs to be provided")
            /\ UNCHANGED <<it, calls, prev_sg>>
       ELSE /\ it' \in {supported_its[i].InstanceType : i \in 1..Len(supported_its)} \cup {NoneText}
            /\ calls' = Append(calls, Call("select", <<"instance">>, it' # NoneText))
            /\ pc' = "describe_security_groups"
            /\ prev_sg' = last_sg
            /\ UNCHANGED err
    /\ UNCHANGED <<repo_dir, dir_source, groups, nruns, package_vars, tag, force_rebuild, bento, bento_info,
                   available_it_infos, supported_its, security_group_id, ensure_group_id,
                   init_script_file, built, last_sg, matcher_vars, reference>>

(***************************************************************************)
(* _ensure_aws_security_group (lines 194-270), called at line 345.         *)
(***************************************************************************)
\* a describe-by-name that reports no group
DescribeNothing(gs) == <<>>

\* existing_groups["SecurityGroups"]: the ids of the groups with the name
DescribeResult(gs) == [i \in 1..Len(gs) |-> i]

\* lines 196-207: describe-security-groups by name; an existing group is returned
DescribeSecurityGroups ==
    /\ pc = "describe_security_groups"
    /\ \/ /\ calls' = Append(calls, Call("aws ec2 describe-security-groups", <<>>, FALSE))
          /\ Raise("RuntimeError: Failed to create security group")
          /\ last_sg' = 0
          /\ UNCHANGED security_group_id
       \/ LET existing_groups == DescribeResult(groups)
          IN  /\ calls' = Append(calls, Call("aws ec2 describe-security-groups", <<>>, TRUE))
              /\ IF existing_groups # <<>>
                 THEN /\ security_group_id' = existing_groups[1]
                      /\ last_sg' = existing_groups[1]
                      /\ pc' = "write_init_script"
                      /\ UNCHANGED err
                 ELSE /\ pc' = "create_security_group"
                      /\ UNCHANGED <<security_group_id, last_sg, err>>
    /\ UNCHANGED <<repo_dir, dir_source, groups, nruns, package_vars, tag, force_rebuild, bento, bento_info,
                   available_it_infos, supported_its, it, ensure_group_id, init_script_file,
                   built, prev_sg, matcher_vars, reference>>

\* lines 209-221: create-security-group
CreateSecurityGroup ==
    /\ pc = "create_security_group"
    /\ \/ /\ calls' = Append(calls, Call("aws ec2 create-security-group", <<>>, FALSE))
          /\ Raise("RuntimeError: Failed to create security group")
          /\ last_sg' = 0
          /\ UNCHANGED <<groups, ensure_group_id>>
       \/ /\ calls' = Append(calls, Call("aws ec2 create-security-group", <<>>, TRUE))
          /\ groups' = Append(groups, {})
          /\ ensure_group_id' = Len(groups) + 1
          /\ pc' = "authorize_1"
          /\ UNCHANGED <<err, last_sg>>
    /\ UNCHANGED <<repo_dir, dir_source, nruns, package_vars, tag, force_rebuild, bento, bento_info,
                   available_it_infos, supported_its, it, security_group_id, init_script_file,
                   built, prev_sg, matcher_vars, reference>>

AuthorizePc == <<"authorize_1", "authorize_2", "authorize_3">>

\* lines 223-268: the i-th authorize-security-group-ingress; after the third
\* the new id is returned
AuthorizeIngress(i) ==
    /\ pc = AuthorizePc[i]
    /\ \/ /\ calls' = Append(calls, Call("aws ec2 authorize-security-group-ingress",
                                         <<IngressPorts[i]>>, FALSE))
          /\ Raise("RuntimeError: Failed to create security group")
          /\ last_sg' = 0
          /\ UNCHANGED <<groups, security_group_id>>
       \/ /\ calls' = Append(calls, Call("aws ec2 authorize-security-group-ingress",
                                         <<IngressPorts[i]>>, TRUE))
          /\ groups' = [groups EXCEPT ![ensure_group_id] = @ \cup {IngressPorts[i]}]
          /\ UNCHANGED err
          /\ IF i < Len(IngressPorts)
             THEN /\ pc' = AuthorizePc[i + 1]
                  /\ UNCHANGED <<security_group_id, last_sg>>
             ELSE /\ pc' = "write_init_script"
                  /\ security_group_id' = ensure_group_id
                  /\ last_sg' = ensure_group_id
    /\ UNCHANGED <<repo_dir, dir_source, nruns, package_vars, tag, force_rebuild, bento, bento_info,
                   available_it_infos, supported_its, it, ensure_group_id, init_script_file,
                   built, prev_sg, matcher_vars, reference>>

(***************************************************************************)
(* run: bootstrap script and launch command (lines 346-373).               *)
(***************************************************************************)
\* lines 348-355: the init script is rendered and written to the cache directory
WriteInitScript ==
    /\ pc = "write_init_script"
    /\ init_script_file' = TRUE
    /\ pc' = "launch"
    /\ UNCHANGED <<repo_dir, dir_source, groups, nruns, package_vars, tag, force_rebuild, bento, bento_info,
                   available_it_infos, supported_its, it, security_group_id, ensure_group_id,
                   built, calls, err, last_sg, prev_sg, matcher_vars, reference>>

\* lines 356-373: the run-instances command is assembled and printed; no
\* subprocess is started for it, and run returns.  After a cancelled instance
\* prompt the command holds None, and ' '.join(cmd) raises TypeError
PrintLaunchCommand ==
    /\ pc = "launch"
    /\ IF it = NoneText
       THEN Raise("TypeError: sequence item 6: expected str instance, NoneType found")
       ELSE pc' = "returned" /\ UNCHANGED err
    /\ UNCHANGED <<repo_dir, dir_source, groups, nruns, run_locals, calls, last_sg, prev_sg, matcher_vars, reference>>

Next ==
    \/ \E t \in TagArgs, f \in BOOLEAN : StartRun(t, f)
    \/ GetBentoInfo
    \/ ForceRmtree
    \/ SkipClone
    \/ Clone
    \/ Build
    \/ GetBuiltBentoInfo
    \/ CheckServices
    \/ SelectProvider
    \/ DescribeInstanceTypes
    \/ MatchInstances
    \/ SelectInstance
    \/ DescribeSecurityGroups
    \/ CreateSecurityGroup
    \/ \E i \in 1..Len(IngressPorts) : AuthorizeIngress(i)
    \/ WriteInitScript
    \/ PrintLaunchCommand

Spec == Init /\ [][Next]_vars

(***************************************************************************)
(* The instance matcher on its own: _filter_instance_types is called on a  *)
(* catalog, and called again on reorderings of the same catalog.           *)
(***************************************************************************)
DescriptorPool ==
    {IT_g4dn_xlarge, IT_g5_xlarge, IT_g6_xlarge, IT_g5g_16xlarge, IT_g5g_metal, IT_m5_large}

\* catalogs of at most MaxCatalog distinct descriptors
MatcherCatalogs ==
    UNION {{c \in [1..n -> DescriptorPool] : \A i, j \in 1..n : c[i] = c[j] => i = j} :
           n \in 0..MaxCatalog}

GpuCounts == {NoneNum, 0, 1, 2}
GpuMemories == {NoneNum, 16, 22, 24}
GpuTypes == {None, "T4", "H100"}
Levels == {"match", "usable", "exact"}

MatcherInit ==
    /\ RunInit
    /\ repo_dir = "absent"
    /\ f_args \in [instance_types : MatcherCatalogs, gpu_count : GpuCounts,
                   gpu_memory : GpuMemories, gpu_type : GpuTypes, level : Levels]
    /\ f_result = NoResult
    /\ f_first = NoResult
    /\ reference = NoReference

\* two positions of a sequence exchanged
Swap(s, i, j) == [s EXCEPT ![i] = s[j], ![j] = s[i]]

\* _filter_instance_types is called with the current arguments
FilterCall ==
    /\ f_result = NoResult
    /\ f_result' = _filter_instance_types(f_args.instance_types, f_args.gpu_count,
                                          f_args.gpu_memory, f_args.gpu_type, f_args.level)
    /\ f_first' = IF f_first = NoResult THEN f_result' ELSE f_first
    /\ UNCHANGED <<repo_dir, dir_source, groups, nruns, pc, run_locals, calls, err, last_sg, prev_sg, f_args, reference>>

\* the caller reorders the catalog before the next call
Shuffle ==
    /\ f_result # NoResult
    /\ \E i, j \in 1..Len(f_args.instance_types) :
          /\ i < j
          /\ f_args' = [f_args EXCEPT !.instance_types = Swap(@, i, j)]
    /\ f_result' = NoResult
    /\ UNCHANGED <<repo_dir, dir_source, groups, nruns, pc, run_locals, calls, err, last_sg, prev_sg, f_first, reference>>

MatcherNext == FilterCall \/ Shuffle

SpecMatcher == MatcherInit /\ [][MatcherNext]_vars

(***************************************************************************)
(* The resolver alone: run is entered with a table entry whose package is  *)
(* written from the components of `reference'.                             *)
(***************************************************************************)
T_scheme_sep == <<":", "/", "/">>
T_slash == <<"/">>
T_at == <<"@">>

Schemes == {<<"h", "t", "t", "p", "s">>, <<"s", "s", "h">>}
Hosts == {<<"g", "i", "t", "h", "u", "b", ".", "c", "o", "m">>, <<"h", ".", "i", "o">>}
SegmentNames == {<<"o", "r", "g">>, <<"r", "e", "p", "o">>}
Branches == {T_main, T_dev}
Subdirectories == {<<"s", "u", "b", "/", "d", "i", "r">>, <<"s">>}
Forms == {"full", "no_branch", "no_subdirectory", "bare"}

SegmentSeqs == UNION {[1..n -> SegmentNames] : n \in 1..MaxSegments}

References ==
    [form : Forms, scheme : Schemes, host : Hosts, segments : SegmentSeqs,
     branch : Branches, subdirectory : Subdirectories]

RECURSIVE JoinSegments(_)
JoinSegments(segs) ==
    IF segs = <<>> THEN <<>>
    ELSE T_slash \o Head(segs) \o JoinSegments(Tail(segs))

\* the repository URL scheme://host/s1/.../sn
UrlOf(ref) == ref.scheme \o T_scheme_sep \o ref.host \o JoinSegments(ref.segments)

\* the package text of a table entry: git+<url>@<branch>#subdirectory=<dir>,
\* or that text with the branch part, the subdirectory part or both left out
Render(ref) ==
    T_git_plus \o UrlOf(ref)
      \o (IF ref.form \in {"full", "no_subdirectory"} THEN T_at \o ref.branch ELSE <<>>)
      \o (IF ref.form \in {"full", "no_branch"}
          THEN T_subdirectory_marker \o ref.subdirectory ELSE <<>>)

ResolverInit ==
    /\ RunInit
    /\ MatcherIdle
    /\ reference \in References

\* run is entered for a table entry whose package is Render(reference)
ResolveEntry == \E f \in BOOLEAN : Enter(T_7b, f, Render(reference))

ResolverNext == ResolveEntry \/ GetBentoInfo

SpecResolver == ResolverInit /\ [][ResolverNext]_vars

(***************************************************************************)
(* Properties of run.                                                      *)
(***************************************************************************)
\* the commands of the given kinds executed so far by this invocation
CallsOf(cmds) == {i \in 1..Len(calls) : calls[i].cmd \in cmds}

\* the initial metadata query of this invocation succeeded
CacheHit == calls # <<>> /\ calls[1].cmd = "bentoml get" /\ calls[1].ok

AllPorts == {IngressPorts[i] : i \in 1..Len(IngressPorts)}

\* C1: in an invocation whose initial metadata query succeeded no directory
\* is deleted, nothing is cloned and nothing is built, whatever the
\* force-rebuild flag and the state of the source directory.
C1_CacheHitDoesNothingElse ==
    CacheHit => CallsOf({"rmtree", "git clone", "bentoml build"}) = {}

\* a cache hit with force-rebuild set and a source directory on disk, past the query
C1_Witness ==
    /\ CacheHit
    /\ force_rebuild
    /\ repo_dir # "absent"
    /\ pc = "returned"

\* C2: after a failed initial query and a successful build that printed the
\* identity line of N:V, the final metadata query is issued for exactly N:V.
C2_RequeryUsesBuiltIdentity ==
    (built # NoBuilt /\ pc # "get_built_info") =>
        \E i \in CallsOf({"bentoml get"}) :
            /\ i > 1
            /\ \A j \in CallsOf({"bentoml get"}) : j <= i
            /\ calls[i].arg = TagOf(built.id[1], built.id[2])

\* C3: when the clone was attempted and failed, the destination directory
\* does not exist when the error leaves run, the error is propagated and no
\* build step is invoked.
C3_FailedCloneLeavesNoDirectory ==
    (\E i \in CallsOf({"git clone"}) : ~calls[i].ok) =>
        /\ pc = "raised"
        /\ err # "none"
        /\ CallsOf({"bentoml build"}) = {}
        /\ repo_dir = "absent"

\* C4: over sequential invocations in which any cloud call may fail, the
\* account never holds more than one security group with the stable name.
C4_NoDuplicatePolicy == Len(groups) <= 1

\* a later invocation finds the group that an earlier, failed invocation created
C4_Witness ==
    /\ nruns >= 2
    /\ Len(groups) = 1
    /\ groups[1] # AllPorts
    /\ \E i \in CallsOf({"aws ec2 describe-security-groups"}) : calls[i].ok
    /\ security_group_id = 1

\* C5: when the preceding call of _ensure_aws_security_group returned an id,
\* the next call issues no create-security-group and no authorize-ingress
\* call, and the id it returns is the same.
C5_EnsureIsIdempotent ==
    (prev_sg # 0 /\ CallsOf({"aws ec2 describe-security-groups"}) # {}) =>
        /\ CallsOf({"aws ec2 create-security-group",
                    "aws ec2 authorize-security-group-ingress"}) = {}
        /\ security_group_id # 0 => security_group_id = prev_sg

\* the second of two calls in sequence has returned
C5_Witness ==
    /\ prev_sg # 0
    /\ CallsOf({"aws ec2 describe-security-groups"}) # {}
    /\ security_group_id = prev_sg
    /\ pc = "returned"

\* C6: an invocation in which an instance type was chosen, the policy was
\* ensured and the script was generated has sent exactly one launch request
\* by the time it returns.
C6_LaunchIsIssued ==
    (pc = "returned" /\ it # NoneText /\ security_group_id # 0 /\ init_script_file) =>
        Cardinality(CallsOf({"aws ec2 run-instances"})) = 1

\* C10: whenever the filtering of the catalog yields nothing (in particular
\* for a gpu count of 0 with neither memory nor family and a catalog of GPU
\* types only), the invocation fails with the no-eligible-instance error,
\* before instance selection, policy creation or launch.
C10_EmptyMatchIsAnError ==
    LET service == bento_info.services[1]
        r == _filter_instance_types(available_it_infos, service.gpu, service.gpu_memory,
                                    service.gpu_type, "match")
        matched == /\ available_it_infos # <<>>
                   /\ pc # "match"
                   /\ service.has_config /\ service.has_resources /\ service.has_gpu
        scenarioD == /\ service.gpu = 0
                     /\ service.gpu_memory = NoneNum /\ service.gpu_type = None
                     /\ \A i \in 1..Len(available_it_infos) : available_it_infos[i].HasGpuInfo
    IN  (matched /\ (scenarioD \/ (r.err = "none" /\ r.its = <<>>))) =>
            /\ pc = "raised"
            /\ err = "NoEligibleInstanceError"
            /\ CallsOf({"select"}) \subseteq {i \in 1..Len(calls) : calls[i].arg = <<"provider">>}
            /\ CallsOf({"aws ec2 describe-security-groups", "aws ec2 create-security-group",
                        "aws ec2 run-instances"}) = {}

(***************************************************************************)
(* Properties of _filter_instance_types.                                   *)
(***************************************************************************)
\* the descriptors of the returned list
Returned == {f_result.its[i] : i \in 1..Len(f_result.its)}

\* the catalog of the call
Catalog == {f_args.instance_types[i] : i \in 1..Len(f_args.instance_types)}

\* the required GiB: the explicit memory, else the memory of the family
RequiredGiB ==
    IF f_args.gpu_memory # NoneNum THEN f_args.gpu_memory ELSE GPU_MEMORY[f_args.gpu_type]

\* C7: for a requirement with gpuCount > 0, level Exact returns exactly the
\* descriptors whose first GPU has the required count and memory, and level
\* Usable exactly those whose first GPU has at least the count and the memory.
C7_MatchLevels ==
    (f_result.err = "none" /\ f_args.gpu_count > 0 /\ f_args.level \in {"match", "usable"}) =>
        \A d \in Catalog :
            LET first == d.Gpus[1]
            IN  d \in Returned <=>
                  /\ d.Gpus # <<>>
                  /\ IF f_args.level = "match"
                     THEN first.Count = f_args.gpu_count
                          /\ first.SizeInMiB = RequiredGiB * 1024
                     ELSE first.Count >= f_args.gpu_count
                          /\ first.SizeInMiB >= RequiredGiB * 1024

\* level Usable returned a descriptor that exceeds the requirement and left one out
C7_Witness ==
    /\ f_result.err = "none"
    /\ f_args.gpu_count = 1
    /\ f_args.level = "usable"
    /\ \E d \in Returned : d.Gpus[1].SizeInMiB > RequiredGiB * 1024
    /\ Catalog \ Returned # {}

\* C8: for a requirement with gpuCount = 0 for which a list is returned, no
\* descriptor with a GPU is in the list and every descriptor without GPU
\* information is.
C8_CpuOnlyRequirement ==
    (f_result.err = "none" /\ f_args.gpu_count = 0) =>
        \A d \in Catalog :
            /\ (d.HasGpuInfo /\ d.Gpus # <<>>) => d \notin Returned
            /\ ~d.HasGpuInfo => d \in Returned

\* a CPU-only requirement on a catalog with a GPU type and a CPU type
C8_Witness ==
    /\ f_result.err = "none"
    /\ f_args.gpu_count = 0
    /\ \E d \in Catalog : d.HasGpuInfo
    /\ \E d \in Returned : ~d.HasGpuInfo

\* C9: the list returned for any reordering of the catalog is the list
\* returned for the catalog in its first order.
C9_OrderIndependence ==
    f_result # NoResult => f_result = f_first

\* the commands of the provisioning half of run
ProvisioningCmds ==
    {"aws ec2 describe-security-groups", "aws ec2 create-security-group",
     "aws ec2 authorize-security-group-ingress", "aws ec2 run-instances"}

\* C13: whenever the resolved bento declares more than one service, run
\* fails with an error at the check of the services: no provider is
\* selected, no catalog is queried, no security group is queried or created,
\* no script is written, no launch is requested, and no service is picked.
C13_SingleServiceOnly ==
    (bento_info.loaded /\ Len(bento_info.services) > 1) =>
        /\ pc \in {"check_services", "raised"}
        /\ pc = "raised" => err = "ValueError: Only support one service currently"
        /\ CallsOf({"select", "aws ec2 describe-instance-types"} \cup ProvisioningCmds) = {}
        /\ it = NoneText
        /\ security_group_id = 0
        /\ ~init_script_file

\* run has raised on a bento of two services
C13_Witness ==
    /\ bento_info.loaded
    /\ Len(bento_info.services) = 2
    /\ pc = "raised"
    /\ err = "ValueError: Only support one service currently"

\* C14: whenever the single service has no resources, or has resources
\* without a GPU requirement, run fails with an error: it never returns
\* normally, and no security group is queried or created, no script is
\* written and no launch is requested.
C14_GpuMandatory ==
    LET service == bento_info.services[1]
    IN  (/\ bento_info.loaded
         /\ Len(bento_info.services) = 1
         /\ (~service.has_config \/ ~service.has_resources \/ ~service.has_gpu)) =>
            /\ pc # "returned"
            /\ CallsOf(ProvisioningCmds) = {}
            /\ security_group_id = 0
            /\ ~init_script_file

\* C15: once the operator has cancelled the provider prompt or the instance
\* prompt, the invocation stops: no security group is queried or created, no
\* script is written and no launch is requested.
C15_CancellationAborts ==
    (\E i \in CallsOf({"select"}) : ~calls[i].ok) =>
        /\ ~calls[Len(calls)].ok /\ calls[Len(calls)].cmd = "select"
        /\ CallsOf(ProvisioningCmds) = {}
        /\ security_group_id = 0
        /\ ~init_script_file

\* the initial query of the invocation failed and force-rebuild is set
ForcedRebuild == force_rebuild /\ calls # <<>> /\ ~calls[1].ok /\ pc # "rmtree"

\* C16: in an invocation whose initial query failed with force-rebuild set,
\* the deletion of the source directory is attempted right after the query,
\* before the existence check; when it succeeded the directory is absent at
\* the existence check, and a build of this invocation is preceded by a
\* successful clone of this invocation and runs on that clone; when it
\* failed the invocation goes on to the existence check without an error.
C16_ForceRebuild ==
    ForcedRebuild =>
        /\ Len(calls) >= 2
        /\ calls[2].cmd = "rmtree"
        /\ \A i \in CallsOf({"git clone", "bentoml build"}) : i > 2
        /\ calls[2].ok =>
              /\ pc = "exists" => repo_dir = "absent"
              /\ (pc = "build" \/ CallsOf({"bentoml build"}) # {}) =>
                    /\ \E i \in CallsOf({"git clone"}) :
                          calls[i].ok /\ \A j \in CallsOf({"bentoml build"}) : i < j
                    /\ repo_dir = "clone"
                    /\ dir_source = Source(repo, branch)
        /\ (~calls[2].ok /\ Len(calls) = 2) => (pc \in {"exists", "build"} /\ err = "none")

\* a forced rebuild whose deletion succeeded has cloned and has invoked the build
C16_Witness ==
    /\ ForcedRebuild
    /\ calls[2].cmd = "rmtree" /\ calls[2].ok
    /\ \E i \in CallsOf({"git clone"}) : calls[i].ok
    /\ CallsOf({"bentoml build"}) # {}
    /\ nruns >= 2

\* C17: for a GPU count that is a number, the call fails with the error of
\* the missing GPU specification exactly when the count is positive and
\* neither a memory nor a family of the GPU_MEMORY table is given; for a
\* count of 0 it returns a list without raising.
C17_MissingGpuSpec ==
    LET resolvable == f_args.gpu_memory # NoneNum \/ f_args.gpu_type \in DOMAIN GPU_MEMORY
        missing == f_result.err = "ValueError: Either gpu_memory or gpu_type must be provided"
    IN  (f_result # NoResult /\ f_args.gpu_count # NoneNum) =>
            /\ missing <=> (f_args.gpu_count > 0 /\ ~resolvable)
            /\ f_args.gpu_count = 0 => f_result.err = "none"

\* C18: over sequential invocations in which any cloud call may fail, every
\* id returned by _ensure_aws_security_group, found by name or newly
\* created, is the id of a group on which the ingress rules for the ports
\* 80, 443 and 22 have all been authorized.
C18_ReturnedPolicyIsComplete ==
    security_group_id # 0 => groups[security_group_id] = AllPorts

\* C19: over any sequence of invocations, whenever the build is invoked for a
\* package with repository R and branch B, the source directory holds a
\* complete clone of R at branch B: never what an earlier invocation left
\* there for another branch or for another URL stored in the same directory.
C19_BuildUsesReferencedSource ==
    (pc = "build" \/ CallsOf({"bentoml build"}) # {}) =>
        /\ repo_dir = "clone"
        /\ dir_source = Source(repo, branch)

\* the commands of the build-or-reuse pipeline
PipelineCmds == {"bentoml get", "git clone", "bentoml build"}

\* C20: in every invocation the log starts with the initial query; after a
\* successful initial query nothing of the pipeline follows; otherwise at
\* most one clone and one build are invoked, the build only after a failed
\* initial query, on an existing directory and after the clone if there is
\* one, the re-query only right after a successful build; and a failed
\* clone, build or re-query ends the invocation with an error, with no
\* further query, clone or build.
C20_PipelineOrderNoRetry ==
    LET gets == CallsOf({"bentoml get"})
        clones == CallsOf({"git clone"})
        builds == CallsOf({"bentoml build"})
    IN  /\ calls # <<>> => calls[1].cmd = "bentoml get"
        /\ CacheHit => CallsOf(PipelineCmds) = {1}
        /\ Cardinality(clones) <= 1
        /\ Cardinality(builds) <= 1
        /\ Cardinality(gets) <= 2
        /\ \A b \in builds :
              /\ ~calls[1].ok
              /\ repo_dir # "absent"
              /\ \A c \in clones : c < b /\ calls[c].ok
        /\ \A g \in gets \ {1} : g - 1 \in builds /\ calls[g - 1].ok
        /\ \A i \in CallsOf(PipelineCmds) \ {1} :
              ~calls[i].ok =>
                  /\ pc = "raised"
                  /\ err # "none"
                  /\ \A j \in CallsOf(PipelineCmds) : j <= i
        /\ pc \in {"check_services", "select_provider"} =>
              \E g \in gets : calls[g].ok /\ \A j \in CallsOf(PipelineCmds) : j <= g

\* Querying, Cloning, Building, Found: the whole pipeline has run
C20_Witness ==
    /\ Len(calls) = 4
    /\ calls[1].cmd = "bentoml get" /\ ~calls[1].ok
    /\ calls[2].cmd = "git clone" /\ calls[2].ok
    /\ calls[3].cmd = "bentoml build" /\ calls[3].ok
    /\ calls[4].cmd = "bentoml get" /\ calls[4].ok
    /\ pc = "check_services"

(***************************************************************************)
(* Properties of _resolve_git_package.                                     *)
(***************************************************************************)
\* run has parsed the package of the reference
Parsed == nruns > 0

\* C11: for a well-formed reference git+<scheme>://<host>/<s1>/.../<sn>@<branch>
\* #subdirectory=<subdir> the parse returns the branch, the subdirectory and
\* the storage path segments <host>, <s1>, ..., <sn>, none of them empty.
C11_StoragePathSegments ==
    (Parsed /\ reference.form = "full") =>
        /\ err = "none"
        /\ branch = reference.branch
        /\ subdirectory = reference.subdirectory
        /\ path_parts = <<reference.host>> \o reference.segments
        /\ \A i \in 1..Len(path_parts) : path_parts[i] # <<>>

\* C12: for a reference without the "@" separator or without
\* "#subdirectory=" the parse fails with the invalid-package error, returns
\* no component, and run has issued no external command when it fails.
C12_MalformedReferenceFails ==
    (Parsed /\ reference.form \in {"no_branch", "no_subdirectory", "bare"}) =>
        /\ pc = "raised"
        /\ err = "ValueError: Invalid git package"
        /\ repo = <<>> /\ branch = <<>> /\ subdirectory = <<>> /\ path_parts = <<>>
        /\ calls = <<>>
        /\ bento_info = NoInfo

\* run has raised on a reference that has a subdirectory part and no branch part
C12_Witness ==
    /\ Parsed
    /\ reference.form = "no_branch"
    /\ pc = "raised"
    /\ err = "ValueError: Invalid git package"

====
